---- MODULE Spec2Model ----
(***************************************************************************)
(* Model of monitor_mikrotik's app.py: the MikroTikMonitor polling thread, *)
(* the two Socket.IO handlers connect_mikrotik / disconnect_mikrotik that  *)
(* start, replace and stop it under thread_lock, the rate derivation of    *)
(* get_interface_stats, the display formatting of format_speed /           *)
(* format_bytes and the persistence of save_to_db.                         *)
(*                                                                         *)
(* Time is the wall clock time.time() in whole seconds; it advances in     *)
(* time.sleep(interval), the loop's only intended suspension point.        *)
(* Floating-point rates are kept as exact fractions [n, d].                *)
(***************************************************************************)
EXTENDS Integers, Sequences, FiniteSets, TLC

\* ---------------------------------------------------------------- bounds
\* Requests (connect_mikrotik / disconnect_mikrotik events) a run receives.
MaxRequests == 2
\* Poll cycles one MikroTikMonitor thread begins.
MaxCycles == 2
\* Poll cycles of the five-cycle scenario (interval 1, save interval 2).
ScenarioCycles == 5
\* Value of time.time() when the process starts (seconds since the epoch).
StartTime == 100

\* ------------------------------------------------------ program constants
\* MikroTikMonitor.__init__(..., interval=3)
DefaultInterval == 3
\* self.save_interval = 60
DefaultSaveInterval == 60
\* format_bytes: if val < 1024 / val /= 1024
KiB == 1024
\* format_speed thresholds 1_000_000_000 and 1_000_000
Giga == 1000000000
Mega == 1000000

\* ------------------------------------------------------------ environment
\* Handler threads of the Socket.IO server (async_mode='threading').
Handlers == {1, 2}
Sessions == 1..MaxRequests
\* Interface names the device lists (the answer of /interface get).
DeviceInterfaces == <<"ether1">>
\* data.get('interfaces') of a connect_mikrotik event: nothing (None or []),
\* which makes run() discover the interfaces each cycle. Sessions with a list
\* of named interfaces are those of InitData and InitScenario.
RequestInterfaces == { <<>> }
\* rx-byte / tx-byte readings the device may answer with.
\* What iface_resource.get(name=iface) does: it raises ("error"), returns no
\* row ("empty"), or returns a row with the counters rx-byte and tx-byte.
Answer(kind, rx, tx) == [kind |-> kind, rx |-> rx, tx |-> tx]
Raised == Answer("error", 0, 0)
NoRow == Answer("empty", 0, 0)
NoAnswer == Answer("none", 0, 0)
\* rx-byte / tx-byte readings the device may answer with.
Samples ==
  { Answer("row", 2000, 1500000),
    Answer("row", 3000, 300) }
\* A device whose counters grow linearly, cycle after cycle.
LinearSample(k) == Answer("row", 1000 * k, 250000 * k)

\* ---------------------------------------------------------------- numbers
\* A Python float that holds the fraction n / d (d > 0).
Frac(n, d) == [n |-> n, d |-> d]
Zero == Frac(0, 1)

\* int(x): truncation toward zero.
IntOf(x) ==
  IF x.n >= 0 THEN x.n \div x.d ELSE -((-x.n) \div x.d)

\* f"{v / u:.2f}" for integers v >= 0, u > 0, as a number of hundredths
\* (round half to even on the exact quotient).
Fixed2(v, u) ==
  LET q == (v * 100) \div u
      r == (v * 100) % u
  IN  IF 2 * r > u \/ (2 * r = u /\ q % 2 = 1) THEN q + 1 ELSE q

\* A formatted value "X.XX Unit": the number in hundredths, and the unit.
Text(h, unit) == [h |-> h, unit |-> unit]

format_speed(bps) ==
  LET b == IntOf(bps)
  IN  IF b >= Giga THEN Text(Fixed2(b, Giga), "Gbps")
      ELSE IF b >= Mega THEN Text(Fixed2(b, Mega), "Mbps")
      ELSE Text(b * 100, "bps")

BytesUnits == <<"B", "KB", "MB", "GB", "TB">>

RECURSIVE format_bytes_from(_, _, _)
format_bytes_from(value, scale, k) ==
  IF k > Len(BytesUnits) THEN Text(Fixed2(value, scale), "PB")
  ELSE IF value < KiB * scale THEN Text(Fixed2(value, scale), BytesUnits[k])
  ELSE format_bytes_from(value, scale * KiB, k + 1)

format_bytes(value) == format_bytes_from(value, 1, 1)

\* float(s.split()[0]): the number of a formatted value, in hundredths; the
\* unit is dropped.
ParseNumber(text) == text.h

\* time.strftime("%H:%M:%S"): the second of the day.
ClockText(t) == t % 86400

\* ------------------------------------------------------------------ state
VARIABLES
  monitor_thread,  \* global monitor_thread: 0 (None) or a session
  thread_lock,     \* global thread_lock: <<"free", 0>> or its holder
  LIVE_STATS,      \* global LIVE_STATS
  now,             \* time.time()
  device,          \* the device's counters: "any" reading, or "linear"
  obj,             \* the fields of each MikroTikMonitor object
  thr,             \* each monitor thread: its state and run()'s locals
  hpc,             \* each handler thread's position
  hreq,            \* the event a handler is serving
  hres,            \* the connection_status a handler emitted last
  nreq,            \* events received so far
  emits,           \* the live_stats events emitted, in order: the session
                   \* and cycle of each, and whether that cycle read every
                   \* interface it asked for
  broadcast,       \* the payload of the last live_stats event
  db,              \* table performance_history: the committed batches of
                   \* rows, in insertion order
  report           \* the response of the last /api/get-report-data request

vars ==
  << monitor_thread, thread_lock, LIVE_STATS, now, device, obj, thr,
     hpc, hreq, hres, nreq, emits, broadcast, db, report >>

Free == <<"free", 0>>
ByHandler(h) == <<"handler", h>>

\* A dict: a function whose domain is the set of its keys.
EmptyDict == [i \in {} |-> 0]
Put(d, k, v) == [i \in (DOMAIN d) \cup {k} |-> IF i = k THEN v ELSE d[i]]

\* MikroTikMonitor.__init__: the fields of a new object.
NewObject(interval, save_interval) ==
  [ running |-> TRUE,
    connection |-> "none",
    api |-> FALSE,
    interval |-> interval,
    interfaces_to_monitor |-> <<>>,
    previous_stats |-> EmptyDict,
    last_db_save |-> 0,
    save_interval |-> save_interval ]

\* An object that was never constructed.
NoObject == [NewObject(0, 0) EXCEPT !.running = FALSE]

\* run()'s frame before the thread has run: pc is the statement it is at.
NewFrame ==
  [ state |-> "new",
    pc |-> "while",
    cycle |-> 0,
    interfaces |-> <<>>,
    idx |-> 0,
    current_time |-> 0,
    result |-> NoAnswer,
    rx_speed |-> Zero,
    tx_speed |-> Zero,
    stats |-> EmptyDict ]

NoFrame == [NewFrame EXCEPT !.state = "none"]

\* The thread after run() has returned or raised: its locals are gone.
DeadFrame == [NewFrame EXCEPT !.state = "dead", !.pc = "done"]

is_alive(s) == thr[s].state = "alive"

\* A handler thread that serves no event.
NoRequest == [event |-> "none", interfaces |-> <<>>]

\* No /api/get-report-data request was answered yet.
NoReport == [status |-> "none", startDate |-> 0, endDate |-> 0, data |-> <<>>]

Init ==
  /\ monitor_thread = 0
  /\ thread_lock = Free
  /\ LIVE_STATS = EmptyDict
  /\ now = StartTime
  /\ device = "any"
  /\ obj = [s \in Sessions |-> NoObject]
  /\ thr = [s \in Sessions |-> NoFrame]
  /\ hpc = [h \in Handlers |-> "idle"]
  /\ hreq = [h \in Handlers |-> NoRequest]
  /\ hres = [h \in Handlers |-> "none"]
  /\ nreq = 0
  /\ emits = <<>>
  /\ broadcast = EmptyDict
  /\ db = <<>>
  /\ report = NoReport

\* --------------------------------------------------------------- handlers
\* A client sends connect_mikrotik (with its interface list) or
\* disconnect_mikrotik; the server runs the handler on a thread of its own
\* (the first free one).
Receive(h) ==
  /\ hpc[h] = "idle"
  /\ \A g \in Handlers : hpc[g] = "idle" => h <= g
  /\ nreq < MaxRequests
  /\ \E e \in {"connect_mikrotik", "disconnect_mikrotik"} :
     \E ifaces \in RequestInterfaces :
       /\ e = "disconnect_mikrotik" => ifaces = <<>>
       /\ hreq' = [hreq EXCEPT ![h] = [event |-> e, interfaces |-> ifaces]]
  /\ hpc' = [hpc EXCEPT ![h] = "with"]
  /\ hres' = [hres EXCEPT ![h] = "none"]
  /\ nreq' = nreq + 1
  /\ UNCHANGED << monitor_thread, thread_lock, LIVE_STATS, now, device, obj,
                  thr, emits, broadcast, db, report >>

\* with thread_lock: (acquire), then
\* if monitor_thread and monitor_thread.is_alive():
Acquire(h) ==
  /\ hpc[h] = "with"
  /\ thread_lock = Free
  /\ thread_lock' = ByHandler(h)
  /\ hpc' = [hpc EXCEPT ![h] =
       IF monitor_thread # 0 /\ is_alive(monitor_thread) THEN "stop"
       ELSE IF hreq[h].event = "connect_mikrotik" THEN "create"
       ELSE "exit"]
  /\ UNCHANGED << monitor_thread, LIVE_STATS, now, device, obj, thr, hreq,
                  hres, nreq, emits, broadcast, db, report >>

\* MikroTikMonitor.disconnect: if self.connection: self.connection.disconnect()
disconnect(o) ==
  IF o.connection # "none" THEN [o EXCEPT !.connection = "closed"] ELSE o

\* MikroTikMonitor.stop: self.running = False; self.disconnect()
stop(o) == disconnect([o EXCEPT !.running = FALSE])

\* monitor_thread.stop()
Stop(h) ==
  /\ hpc[h] = "stop"
  /\ obj' = [obj EXCEPT ![monitor_thread] = stop(@)]
  /\ hpc' = [hpc EXCEPT ![h] = "join"]
  /\ UNCHANGED << monitor_thread, thread_lock, LIVE_STATS, now, device, thr,
                  hreq, hres, nreq, emits, broadcast, db, report >>

\* A join that returns at once, whatever the thread does.
JoinedNoWait(s) == TRUE

\* Thread.join returns once the thread has terminated.
Joined(s) == ~is_alive(s)

\* monitor_thread.join(); disconnect_mikrotik then emits 'Monitoring stopped'
Join(h) ==
  /\ hpc[h] = "join"
  /\ Joined(monitor_thread)
  /\ IF hreq[h].event = "connect_mikrotik"
     THEN /\ hpc' = [hpc EXCEPT ![h] = "create"]
          /\ hres' = hres
     ELSE /\ hpc' = [hpc EXCEPT ![h] = "exit"]
          /\ hres' = [hres EXCEPT ![h] = "success: Monitoring stopped"]
  /\ UNCHANGED << monitor_thread, thread_lock, LIVE_STATS, now, device, obj,
                  thr, hreq, nreq, emits, broadcast, db, report >>

\* The session a new MikroTikMonitor object becomes.
NextSession == Cardinality({s \in Sessions : thr[s].state # "none"}) + 1

\* MikroTikMonitor.connect with the device answering (ok) or not: the pool
\* object is assigned first, get_api() then raises or returns the api.
connect(o, ok) ==
  IF ok THEN [o EXCEPT !.connection = "open", !.api = TRUE]
  ELSE [o EXCEPT !.connection = "pool"]

\* A handler that goes on to start the thread whatever connect() returned.
AfterConnectAlways(ok) == "start"

\* if monitor_thread.connect(): ... else: ...
AfterConnect(ok) == IF ok THEN "start" ELSE "failed"

\* monitor_thread = MikroTikMonitor(ip, username, password);
\* monitor_thread.interfaces_to_monitor = interfaces;
\* if monitor_thread.connect():
\* The object monitor_thread named before is garbage once it is unnamed and
\* its thread has ended; its memory is dropped, its connection is not touched.
Create(h) ==
  /\ hpc[h] = "create"
  /\ NextSession \in Sessions
  /\ LET n == NextSession
         old == monitor_thread
         made == [NewObject(DefaultInterval, DefaultSaveInterval)
                    EXCEPT !.interfaces_to_monitor = hreq[h].interfaces]
         kept(o) == o.connection
     IN  \E ok \in BOOLEAN :
           /\ monitor_thread' = n
           /\ obj' = [s \in Sessions |->
                IF s = n THEN connect(made, ok)
                ELSE IF s = old /\ ~is_alive(s)
                THEN [NoObject EXCEPT !.connection = kept(obj[s])]
                ELSE obj[s]]
           /\ thr' = [s \in Sessions |->
                IF s = n THEN NewFrame
                ELSE IF s = old /\ ~is_alive(s)
                THEN DeadFrame
                ELSE thr[s]]
           /\ hpc' = [hpc EXCEPT ![h] = AfterConnect(ok)]
  /\ UNCHANGED << thread_lock, LIVE_STATS, now, device, hreq, hres, nreq,
                  emits, broadcast, db, report >>

\* monitor_thread.daemon = True; monitor_thread.start()
Start(h) ==
  /\ hpc[h] = "start"
  /\ thr' = [thr EXCEPT ![monitor_thread].state = "alive"]
  /\ hpc' = [hpc EXCEPT ![h] = "started"]
  /\ UNCHANGED << monitor_thread, thread_lock, LIVE_STATS, now, device, obj,
                  hreq, hres, nreq, emits, broadcast, db, report >>

\* emit('connection_status', ...) and the end of the with block
Reply(h) ==
  /\ hpc[h] \in {"started", "failed", "exit"}
  /\ hres' = [hres EXCEPT ![h] =
       CASE hpc[h] = "started" -> "success: Monitoring started"
         [] hpc[h] = "failed" -> "error: Failed to connect to MikroTik"
         [] OTHER -> @]
  /\ thread_lock' = Free
  /\ hpc' = [hpc EXCEPT ![h] = "idle"]
  /\ hreq' = [hreq EXCEPT ![h] = NoRequest]
  /\ UNCHANGED << monitor_thread, LIVE_STATS, now, device, obj, thr,
                  nreq, emits, broadcast, db, report >>

\* --------------------------------------------------------- monitor thread
CycleLimit == IF device = "linear" THEN ScenarioCycles ELSE MaxCycles

\* while self.running: / if self.api:
While(s) ==
  /\ is_alive(s)
  /\ thr[s].pc = "while"
  /\ \/ /\ ~obj[s].running
        /\ thr' = [thr EXCEPT ![s] = DeadFrame]
     \/ /\ obj[s].running
        /\ thr[s].cycle < CycleLimit
        /\ thr' = [thr EXCEPT ![s].pc = IF obj[s].api THEN "resolve" ELSE "sleep",
                              ![s].cycle = IF obj[s].api THEN @ + 1 ELSE @]
  /\ UNCHANGED << monitor_thread, thread_lock, LIVE_STATS, now, device, obj,
                  hpc, hreq, hres, nreq, emits, broadcast, db, report >>

\* MikroTikMonitor.get_all_interfaces: the names the device lists, or [] when
\* the call raises (self.api is set whenever run() gets here).
get_all_interfaces(o, ok) == IF ok THEN DeviceInterfaces ELSE <<>>

\* interfaces = self.interfaces_to_monitor or self.get_all_interfaces()
Resolve(s) ==
  /\ is_alive(s)
  /\ thr[s].pc = "resolve"
  /\ \/ /\ obj[s].interfaces_to_monitor # <<>>
        /\ thr' = [thr EXCEPT ![s].pc = "stats",
                              ![s].interfaces = obj[s].interfaces_to_monitor]
     \/ /\ obj[s].interfaces_to_monitor = <<>>
        /\ \E ok \in BOOLEAN :
             /\ ok => obj[s].connection = "open"
             /\ thr' = [thr EXCEPT ![s].pc = "stats",
                                   ![s].interfaces = get_all_interfaces(obj[s], ok)]
  /\ UNCHANGED << monitor_thread, thread_lock, LIVE_STATS, now, device, obj,
                  hpc, hreq, hres, nreq, emits, broadcast, db, report >>

\* get_interface_stats, lines 113-116: stats = {}; current_time = time.time();
\* iface_resource = self.api.get_resource('/interface'), which raises into the
\* outer except (the function then returns the empty stats) or not.
\* The same lines without the outer except: the exception leaves run().
StatsBeginUncaught(f, t, ok) ==
  IF ok THEN [f EXCEPT !.stats = EmptyDict, !.current_time = t, !.idx = 1,
                       !.pc = "for"]
  ELSE DeadFrame

StatsBegin(f, t, ok) ==
  [f EXCEPT !.stats = EmptyDict,
            !.current_time = t,
            !.idx = 1,
            !.pc = IF ok THEN "for" ELSE "lock"]

Stats(s) ==
  /\ is_alive(s)
  /\ thr[s].pc = "stats"
  /\ \E ok \in BOOLEAN : thr' = [thr EXCEPT ![s] = StatsBegin(@, now, ok)]
  /\ UNCHANGED << monitor_thread, thread_lock, LIVE_STATS, now, device, obj,
                  hpc, hreq, hres, nreq, emits, broadcast, db, report >>

\* What iface_resource.get(name=iface) can do in the current state: on a
\* closed connection it only raises.
Answers(s) ==
  IF obj[s].connection # "open" THEN {Raised}
  ELSE {Raised, NoRow} \cup
       (IF device = "linear" THEN {LinearSample(thr[s].cycle)} ELSE Samples)

\* rx_bps = (current - previous) / time_diff; rx_speed = rx_bps * 8
Times(x, k) == Frac(x.n * k, x.d)
\* A rate left in bytes per second.
SpeedOfBytes(current, previous, time_diff) ==
  Frac(current - previous, time_diff)

SpeedOf(current, previous, time_diff) ==
  Times(Frac(current - previous, time_diff), 8)

\* Rates that take a missing previous sample for zero counters at time zero.
RatesFromZero(prev, iface, row, t) ==
  LET p == IF iface \in DOMAIN prev THEN prev[iface]
           ELSE [rx_bytes |-> 0, tx_bytes |-> 0, timestamp |-> 0]
  IN  IF t - p.timestamp > 0
      THEN [rx |-> SpeedOf(row.rx, p.rx_bytes, t - p.timestamp),
            tx |-> SpeedOf(row.tx, p.tx_bytes, t - p.timestamp)]
      ELSE [rx |-> Zero, tx |-> Zero]

\* Lines 129-136: the rates of one reading against self.previous_stats.
Rates(prev, iface, row, t) ==
  IF iface \in DOMAIN prev /\ t - prev[iface].timestamp > 0
  THEN [rx |-> SpeedOf(row.rx, prev[iface].rx_bytes, t - prev[iface].timestamp),
        tx |-> SpeedOf(row.tx, prev[iface].tx_bytes, t - prev[iface].timestamp)]
  ELSE [rx |-> Zero, tx |-> Zero]

\* Lines 138-142: self.previous_stats[iface] = {...}
Remember(prev, iface, row, t) ==
  Put(prev, iface, [rx_bytes |-> row.rx, tx_bytes |-> row.tx, timestamp |-> t])

\* Lines 147-153: stats[iface] = {...}, the formatted entry.
Entry(rx_speed, tx_speed, rx_total, tx_total, t) ==
  [ rx_speed |-> format_speed(rx_speed),
    tx_speed |-> format_speed(tx_speed),
    rx_total |-> format_bytes(rx_total),
    tx_total |-> format_bytes(tx_total),
    timestamp |-> ClockText(t) ]

\* One pass of the for loop (lines 117-153) over interface `iface` whose get
\* answered `a`: run()'s frame afterwards. stats[iface] is assigned after the
\* inner try, whatever the answer was.
ForBody(f, prev, iface, a, t) ==
  LET read == a.kind = "row"
      r == IF read THEN Rates(prev, iface, a, f.current_time)
           ELSE [rx |-> Zero, tx |-> Zero]
      rx_total == IF read THEN a.rx ELSE 0
      tx_total == IF read THEN a.tx ELSE 0
  IN  [f EXCEPT !.result = a,
                !.rx_speed = r.rx,
                !.tx_speed = r.tx,
                !.stats = Put(@, iface, Entry(r.rx, r.tx, rx_total, tx_total, t)),
                !.idx = @ + 1]

\* A table that keeps the old sample where no rate could be computed from it
\* (time_diff <= 0).
ForPreviousRated(f, prev, iface, a) ==
  IF a.kind = "row"
       /\ ~(iface \in DOMAIN prev /\ f.current_time - prev[iface].timestamp <= 0)
  THEN Remember(prev, iface, a, f.current_time)
  ELSE prev

\* self.previous_stats after that pass.
ForPrevious(f, prev, iface, a) ==
  IF a.kind = "row" THEN Remember(prev, iface, a, f.current_time)
  ELSE prev

\* return stats: the locals of the loop body are gone, run() goes on with
\* stats (and the model keeps current_time, which names the cycle).
Return(f) ==
  [f EXCEPT !.pc = "lock", !.idx = 0, !.result = NoAnswer,
            !.rx_speed = Zero, !.tx_speed = Zero]

\* for iface in interfaces: ... ; return stats
For(s) ==
  /\ is_alive(s)
  /\ thr[s].pc = "for"
  /\ \/ /\ thr[s].idx > Len(thr[s].interfaces)
        /\ thr' = [thr EXCEPT ![s] = Return(@)]
        /\ obj' = obj
     \/ /\ thr[s].idx <= Len(thr[s].interfaces)
        /\ \E a \in Answers(s) :
             LET iface == thr[s].interfaces[thr[s].idx]
                 prev == obj[s].previous_stats
             IN  /\ thr' = [thr EXCEPT ![s] = ForBody(@, prev, iface, a, now)]
                 /\ obj' = [obj EXCEPT ![s].previous_stats =
                              ForPrevious(thr[s], prev, iface, a)]
  /\ UNCHANGED << monitor_thread, thread_lock, LIVE_STATS, now, device,
                  hpc, hreq, hres, nreq, emits, broadcast, db, report >>

\* with thread_lock: LIVE_STATS = stats
Publish(s) ==
  /\ is_alive(s)
  /\ thr[s].pc = "lock"
  /\ thread_lock = Free
  /\ LIVE_STATS' = thr[s].stats
  /\ thr' = [thr EXCEPT ![s].pc = "emit"]
  /\ UNCHANGED << monitor_thread, thread_lock, now, device, obj,
                  hpc, hreq, hres, nreq, emits, broadcast, db, report >>

\* The interfaces whose counters session s read in its current cycle: those
\* whose previous-sample entry carries the cycle's current_time.
ReadNow(s) ==
  {i \in DOMAIN obj[s].previous_stats :
     obj[s].previous_stats[i].timestamp = thr[s].current_time}

\* The cycle found interfaces to poll and read every one of them.
Complete(s) ==
  /\ thr[s].interfaces # <<>>
  /\ ReadNow(s) = {thr[s].interfaces[k] : k \in 1..Len(thr[s].interfaces)}

\* socketio.emit('live_stats', {'status': 'success', 'stats': stats})
Emit(s) ==
  /\ is_alive(s)
  /\ thr[s].pc = "emit"
  /\ emits' = Append(emits, [session |-> s, cycle |-> thr[s].cycle,
                              complete |-> Complete(s)])
  /\ broadcast' = thr[s].stats
  /\ thr' = [thr EXCEPT ![s].pc = "persist"]
  /\ UNCHANGED << monitor_thread, thread_lock, LIVE_STATS, now, device, obj,
                  hpc, hreq, hres, nreq, db, report >>

\* The dict's keys in insertion order (the order of the for loop).
Keys(f) == SelectSeq(f.interfaces, LAMBDA i : i \in DOMAIN f.stats)

\* save_to_db: one row per interface of stats, the numbers parsed back from
\* the formatted values; the timestamp text "%Y-%m-%d %H:%M:%S" orders as the
\* clock does and is kept as the clock's second. The rows of one call are
\* committed together (conn.commit()).
Rows(f, t) ==
  [k \in 1..Len(Keys(f)) |->
     LET data == f.stats[Keys(f)[k]]
     IN  [ timestamp |-> t,
           interface |-> Keys(f)[k],
           rx_speed |-> ParseNumber(data.rx_speed),
           tx_speed |-> ParseNumber(data.tx_speed),
           rx_total |-> ParseNumber(data.rx_total),
           tx_total |-> ParseNumber(data.tx_total) ]]

\* A save that is due only after more than save_interval.
DueLater(o, t) == t - o.last_db_save > o.save_interval

\* if time.time() - self.last_db_save >= self.save_interval:
Due(o, t) == t - o.last_db_save >= o.save_interval

\* What an exception of save_to_db does to the thread: run() has no handler
\* for it, so the thread ends.
SaveRaised(f) == DeadFrame

\* self.save_to_db(stats); self.last_db_save = time.time()
Persist(s) ==
  /\ is_alive(s)
  /\ thr[s].pc = "persist"
  /\ \/ /\ Due(obj[s], now)
        /\ db' = Append(db, [at |-> now, rows |-> Rows(thr[s], now)])
        /\ obj' = [obj EXCEPT ![s].last_db_save = now]
        /\ thr' = [thr EXCEPT ![s].pc = "sleep"]
     \/ /\ Due(obj[s], now)
        /\ db' = db
        /\ obj' = obj
        /\ thr' = [thr EXCEPT ![s] = SaveRaised(@)]
     \/ /\ ~Due(obj[s], now)
        /\ db' = db
        /\ obj' = obj
        /\ thr' = [thr EXCEPT ![s].pc = "sleep"]
  /\ UNCHANGED << monitor_thread, thread_lock, LIVE_STATS, now, device,
                  hpc, hreq, hres, nreq, emits, broadcast, report >>

\* time.sleep(self.interval)
Sleep(s) ==
  /\ is_alive(s)
  /\ thr[s].pc = "sleep"
  /\ now' = now + obj[s].interval
  /\ thr' = [thr EXCEPT ![s].pc = "while"]
  /\ UNCHANGED << monitor_thread, thread_lock, LIVE_STATS, device, obj,
                  hpc, hreq, hres, nreq, emits, broadcast, db, report >>

\* ----------------------------------------------------------------- reports
\* The rows of performance_history in insertion (rowid) order.
RECURSIVE TableFrom(_)
TableFrom(k) ==
  IF k > Len(db) THEN <<>> ELSE db[k].rows \o TableFrom(k + 1)

performance_history == TableFrom(1)

\* A range test that leaves out both ends.
BetweenOpen(timestamp, start_date, end_date) ==
  start_date < timestamp /\ timestamp < end_date

\* WHERE timestamp BETWEEN ? AND ?
Between(timestamp, start_date, end_date) ==
  start_date <= timestamp /\ timestamp <= end_date

\* ORDER BY timestamp: rows of equal timestamp stay in rowid order.
RECURSIVE InsertRow(_, _)
InsertRow(row, sorted) ==
  IF sorted = <<>> THEN <<row>>
  ELSE IF Head(sorted).timestamp <= row.timestamp
  THEN <<Head(sorted)>> \o InsertRow(row, Tail(sorted))
  ELSE <<row>> \o sorted

RECURSIVE OrderByTimestamp(_)
OrderByTimestamp(rows) ==
  IF rows = <<>> THEN <<>>
  ELSE InsertRow(rows[Len(rows)],
                 OrderByTimestamp(SubSeq(rows, 1, Len(rows) - 1)))

\* SELECT * FROM performance_history WHERE timestamp BETWEEN ? AND ?
\* ORDER BY timestamp
Select(start_date, end_date) ==
  OrderByTimestamp(
    SelectSeq(performance_history,
              LAMBDA row : Between(row.timestamp, start_date, end_date)))

\* startDate / endDate a report request may carry: before the first cycle,
\* the first cycle, between two batches, and after the last cycle.
ReportDates ==
  {StartTime - 1, StartTime, StartTime + 1, StartTime + ScenarioCycles}

\* POST /api/get-report-data: jsonify({"status": "success", "data": rows})
get_report_data ==
  /\ \E start_date, end_date \in ReportDates :
       report' = [status |-> "success",
                  startDate |-> start_date,
                  endDate |-> end_date,
                  data |-> Select(start_date, end_date)]
  /\ UNCHANGED << monitor_thread, thread_lock, LIVE_STATS, now, device, obj,
                  thr, hpc, hreq, hres, nreq, emits, broadcast, db >>

\* ------------------------------------------------------------ wall clock
\* The wall clock time.time() reads is set back (an NTP step, a manual
\* change) to where it stood when the process started, or a second earlier.
\* The loop reads the clock only while it is awake, so the step is taken
\* where a loop finds it: as it returns from time.sleep.
SetClock ==
  /\ \E s \in Sessions : is_alive(s) /\ thr[s].pc = "while"
  /\ \E t \in {StartTime - 1, StartTime} :
       /\ t < now
       /\ now' = t
  /\ UNCHANGED << monitor_thread, thread_lock, LIVE_STATS, device, obj,
                  thr, hpc, hreq, hres, nreq, emits, broadcast, db, report >>

\* ---------------------------------------------------------- specification
Handler(h) ==
  \/ Receive(h)
  \/ Acquire(h)
  \/ Stop(h)
  \/ Join(h)
  \/ Create(h)
  \/ Start(h)
  \/ Reply(h)

Monitor(s) ==
  \/ While(s)
  \/ Resolve(s)
  \/ Stats(s)
  \/ For(s)
  \/ Publish(s)
  \/ Emit(s)
  \/ Persist(s)
  \/ Sleep(s)

Next == (\E h \in Handlers : Handler(h)) \/ (\E s \in Sessions : Monitor(s))

Spec == Init /\ [][Next]_vars

\* The state after one connect_mikrotik event was served and its thread
\* started: session 1 polls `interfaces` of a device `dev` every `interval`
\* seconds and saves every `save_interval` seconds.
Started(dev, interfaces, interval, save_interval) ==
  /\ monitor_thread = 1
  /\ thread_lock = Free
  /\ LIVE_STATS = EmptyDict
  /\ now = StartTime
  /\ device = dev
  /\ obj = [s \in Sessions |->
       IF s = 1
       THEN connect([NewObject(interval, save_interval)
                       EXCEPT !.interfaces_to_monitor = interfaces], TRUE)
       ELSE NoObject]
  /\ thr = [s \in Sessions |->
       IF s = 1 THEN [NewFrame EXCEPT !.state = "alive"] ELSE NoFrame]
  /\ hpc = [h \in Handlers |-> "idle"]
  /\ hreq = [h \in Handlers |-> NoRequest]
  /\ hres = [h \in Handlers |->
       IF h = 1 THEN "success: Monitoring started" ELSE "none"]
  /\ nreq = 1
  /\ emits = <<>>
  /\ broadcast = EmptyDict
  /\ db = <<>>
  /\ report = NoReport

\* The polling loop alone: no further event arrives.
LoopNext == \E s \in Sessions : Monitor(s)

\* One session polling three interfaces of a device that answers anything.
InitData == Started("any", <<"ether1", "ether2", "ether3">>,
                    DefaultInterval, DefaultSaveInterval)
SpecData == InitData /\ [][LoopNext]_vars

\* The five-cycle scenario: interval 1, save interval 2, a device whose
\* counters grow linearly, polled for two named interfaces or for the
\* interfaces it lists.
InitScenario ==
  \E interfaces \in { <<>>, <<"ether1", "ether2">> } :
    Started("linear", interfaces, 1, 2)
SpecScenario == InitScenario /\ [][LoopNext]_vars

\* The scenario's session with a report client: performance_history is as
\* an earlier run of the process left it (the file outlives the process),
\* empty or holding one batch stamped by a clock that ran a second ahead of
\* this run's.
EarlierRun ==
  << [at |-> StartTime + 1,
      rows |-> << [timestamp |-> StartTime + 1, interface |-> "ether1",
                   rx_speed |-> 0, tx_speed |-> 0,
                   rx_total |-> 0, tx_total |-> 0] >>] >>

InitHistory ==
  \E earlier \in { <<>>, EarlierRun } :
    /\ monitor_thread = 1
    /\ thread_lock = Free
    /\ LIVE_STATS = EmptyDict
    /\ now = StartTime
    /\ device = "linear"
    /\ obj = [s \in Sessions |->
         IF s = 1
         THEN connect([NewObject(1, 2)
                         EXCEPT !.interfaces_to_monitor = <<"ether1">>],
                      TRUE)
         ELSE NoObject]
    /\ thr = [s \in Sessions |->
         IF s = 1 THEN [NewFrame EXCEPT !.state = "alive"] ELSE NoFrame]
    /\ hpc = [h \in Handlers |-> "idle"]
    /\ hreq = [h \in Handlers |-> NoRequest]
    /\ hres = [h \in Handlers |->
         IF h = 1 THEN "success: Monitoring started" ELSE "none"]
    /\ nreq = 1
    /\ emits = <<>>
    /\ broadcast = EmptyDict
    /\ db = earlier
    /\ report = NoReport

HistoryNext == LoopNext \/ get_report_data
SpecHistory == InitHistory /\ [][HistoryNext]_vars

\* One session polling an interface of a device that answers anything, under
\* a wall clock that may be set back; it was started by the last event but
\* one, so one more connect_mikrotik or disconnect_mikrotik arrives.
InitClock ==
  /\ monitor_thread = 1
  /\ thread_lock = Free
  /\ LIVE_STATS = EmptyDict
  /\ now = StartTime
  /\ device = "any"
  /\ obj = [s \in Sessions |->
       IF s = 1
       THEN connect([NewObject(DefaultInterval, DefaultSaveInterval)
                       EXCEPT !.interfaces_to_monitor = <<"ether1">>], TRUE)
       ELSE NoObject]
  /\ thr = [s \in Sessions |->
       IF s = 1 THEN [NewFrame EXCEPT !.state = "alive"] ELSE NoFrame]
  /\ hpc = [h \in Handlers |-> "idle"]
  /\ hreq = [h \in Handlers |-> NoRequest]
  /\ hres = [h \in Handlers |->
       IF h = 1 THEN "success: Monitoring started" ELSE "none"]
  /\ nreq = MaxRequests - 1
  /\ emits = <<>>
  /\ broadcast = EmptyDict
  /\ db = <<>>
  /\ report = NoReport
ClockNext == Next \/ SetClock
SpecClock == InitClock /\ [][ClockNext]_vars

\* ----------------------------------------------------------------- claims
Alive == {s \in Sessions : is_alive(s)}
Open == {s \in Sessions : obj[s].connection = "open"}

\* C1: under any interleaving of connect_mikrotik and disconnect_mikrotik
\* events, at most one MikroTikMonitor thread is alive in every state.
C1_AtMostOneLoop == Cardinality(Alive) <= 1

\* A replacing start has run: the second session's thread is alive after the
\* first one's was stopped and joined.
C1_Witness == is_alive(2) /\ thr[1].state = "dead"

\* Two connect_mikrotik events were served, both connects succeeded and both
\* handlers have returned.
TwoStartsReturned ==
  /\ \A h \in Handlers : hpc[h] = "idle"
  /\ obj[1].connection \in {"open", "closed"}
  /\ obj[2].api

\* C2: after two starts whose connects succeed have both returned, exactly one
\* polling loop is running, and no two sessions ever hold an open device
\* connection at the same time.
C2_OneLoopOneConnection ==
  /\ Cardinality(Open) <= 1
  /\ TwoStartsReturned => Cardinality(Alive) = 1

\* C3: the loop is never blocked on thread_lock while the handler holding it
\* waits in join() for that loop to finish.
C3_LoopNeverBlockedByJoiner ==
  \A h \in Handlers :
    ~ /\ hpc[h] = "join"
      /\ thread_lock = ByHandler(h)
      /\ is_alive(monitor_thread)
      /\ thr[monitor_thread].pc = "lock"

\* One pass of the for loop by session s; the interface it is about and the
\* previous-sample table it started from.
ForStep(s) ==
  /\ is_alive(s)
  /\ thr[s].pc = "for"
  /\ thr[s].idx <= Len(thr[s].interfaces)
  /\ thr'[s].idx = thr[s].idx + 1
Iface(s) == thr[s].interfaces[thr[s].idx]
Previous(s) == obj[s].previous_stats

\* C4: no snapshot carries a negative rx or tx rate (a counter lower than the
\* stored one yields rate 0).
C4_NoNegativeRate ==
  \A i \in DOMAIN broadcast :
    broadcast[i].rx_speed.h >= 0 /\ broadcast[i].tx_speed.h >= 0

\* C5: the first successful reading of an interface in a session yields rate 0
\* for rx and tx in that cycle's snapshot and is stored as the baseline; the
\* baseline stays until the next successful reading of that interface, whose
\* rate is computed from it.
C5_FirstReadingIsBaseline ==
  [][\A s \in Sessions :
       /\ (ForStep(s) /\ thr'[s].result.kind = "row") =>
            LET i == Iface(s)
                a == thr'[s].result
                t == thr[s].current_time
            IN  /\ i \notin DOMAIN Previous(s) =>
                     /\ thr'[s].rx_speed = Zero
                     /\ thr'[s].tx_speed = Zero
                     /\ thr'[s].stats[i].rx_speed = Text(0, "bps")
                     /\ thr'[s].stats[i].tx_speed = Text(0, "bps")
                     /\ i \in DOMAIN obj'[s].previous_stats
                     /\ obj'[s].previous_stats[i] =
                          [rx_bytes |-> a.rx, tx_bytes |-> a.tx, timestamp |-> t]
                /\ (i \in DOMAIN Previous(s) /\ t > Previous(s)[i].timestamp) =>
                     /\ thr'[s].rx_speed =
                          SpeedOf(a.rx, Previous(s)[i].rx_bytes,
                                  t - Previous(s)[i].timestamp)
                     /\ thr'[s].tx_speed =
                          SpeedOf(a.tx, Previous(s)[i].tx_bytes,
                                  t - Previous(s)[i].timestamp)
       /\ \A i \in DOMAIN Previous(s) :
            ~(ForStep(s) /\ thr'[s].result.kind = "row" /\ Iface(s) = i) =>
              /\ i \in DOMAIN obj'[s].previous_stats
              /\ obj'[s].previous_stats[i] = Previous(s)[i]
  ]_vars

\* A second-cycle reading whose rx rate was computed from the baseline of the
\* first cycle.
C5_Witness ==
  \E s \in Sessions :
    /\ thr[s].cycle = 2
    /\ thr[s].result.kind = "row"
    /\ thr[s].rx_speed.n > 0

\* C6: for an interface with a previous sample, a counter not lower than the
\* previous one and deltaT > 0, the rate computed is
\* (current bytes - previous bytes) * 8 / deltaT, for rx and for tx.
C6_RateFormula ==
  [][\A s \in Sessions :
       (ForStep(s) /\ thr'[s].result.kind = "row"
          /\ Iface(s) \in DOMAIN Previous(s)
          /\ thr[s].current_time - Previous(s)[Iface(s)].timestamp > 0) =>
         LET p == Previous(s)[Iface(s)]
             a == thr'[s].result
             deltaT == thr[s].current_time - p.timestamp
         IN  /\ a.rx >= p.rx_bytes =>
                  thr'[s].rx_speed.n * deltaT
                    = (a.rx - p.rx_bytes) * 8 * thr'[s].rx_speed.d
             /\ a.tx >= p.tx_bytes =>
                  thr'[s].tx_speed.n * deltaT
                    = (a.tx - p.tx_bytes) * 8 * thr'[s].tx_speed.d
  ]_vars

\* A reading whose tx counter grew since the previous sample: a positive tx
\* rate in the Mbps range.
C6_Witness ==
  \E s \in Sessions :
    /\ thr[s].result.kind = "row"
    /\ thr[s].tx_speed.n > 0
    /\ IntOf(thr[s].tx_speed) >= Mega

\* C7: the keys of a cycle's snapshot are exactly the requested interfaces
\* whose counters were read in that cycle; an interface whose fetch failed is
\* absent.
C7_SnapshotHoldsWhatWasRead ==
  \A s \in Sessions :
    (is_alive(s) /\ thr[s].pc = "emit") => DOMAIN thr[s].stats = ReadNow(s)

\* The live_stats events of session s, in order.
EmitsOf(s) == SelectSeq(emits, LAMBDA e : e.session = s)

\* Session s has broadcast once in each cycle it has got past the emit of,
\* in cycle order.
BroadcastEachCycle(s) ==
  /\ Len(EmitsOf(s)) =
       IF thr[s].pc \in {"persist", "sleep", "while"} THEN thr[s].cycle
       ELSE thr[s].cycle - 1
  /\ \A k \in 1..Len(EmitsOf(s)) : EmitsOf(s)[k].cycle = k

\* C8: a device fetch failure (discovery, the whole counter fetch, or one
\* interface) never ends the polling loop: the thread ends only where run()
\* finds running false or where save_to_db raises, every fetch step leaves it
\* alive and on its way to the broadcast, and every cycle broadcasts.
C8_FetchFailureKeepsLoop ==
  /\ [][\A s \in Sessions :
          /\ (is_alive(s) /\ ~is_alive(s)') =>
               \/ thr[s].pc = "while" /\ ~obj[s].running
               \/ thr[s].pc = "persist"
          /\ (is_alive(s) /\ thr[s].pc \in {"resolve", "stats", "for"}) =>
               /\ is_alive(s)'
               /\ thr'[s].pc \in {"resolve", "stats", "for", "lock"}
          /\ (is_alive(s) /\ thr[s].pc = "emit" /\ thr'[s] # thr[s]) =>
               /\ is_alive(s)'
               /\ Len(emits') = Len(emits) + 1
     ]_vars
  /\ [](\A s \in Sessions : is_alive(s) => BroadcastEachCycle(s))

\* Five cycles were broadcast, the third after its whole counter fetch had
\* failed (its batch has no row), the other four with every counter read.
C8_Witness ==
  /\ is_alive(1)
  /\ Len(emits) = 5
  /\ ~emits[3].complete
  /\ Len(db) >= 2 /\ db[2].rows = <<>>
  /\ \A k \in {1, 2, 4, 5} : emits[k].complete

\* C9: the polling loop terminates only on an explicit stop request, never on
\* a failure of save_to_db.
C9_LoopEndsOnlyOnStop ==
  \A s \in Sessions : thr[s].state = "dead" => ~obj[s].running

\* The times at which a batch of rows was saved.
BatchTimes == {db[k].at : k \in 1..Len(db)}

\* Session 1 has completed five cycles.
FiveCycles ==
  /\ is_alive(1)
  /\ thr[1].cycle = 5
  /\ thr[1].pc = "sleep"

\* C10 as claimed: five cycles at interval 1 and save interval 2 give five
\* broadcasts and two persisted batches.
C10_TwoBatches ==
  FiveCycles => Len(emits) = 5 /\ Len(db) = 2

\* C10 as amended: every cycle broadcasts once; a cycle saves exactly when
\* now - last_db_save >= save_interval; last_db_save starts at 0, so the
\* first cycle saves, and five cycles at interval 1 and save interval 2 give
\* five broadcasts and three batches (cycles 1, 3 and 5).
C10_ThreeBatches ==
  /\ \A s \in Sessions : is_alive(s) =>
       /\ BroadcastEachCycle(s)
       /\ thr[s].pc = "sleep" => now - obj[s].last_db_save < obj[s].save_interval
       /\ \A t1, t2 \in BatchTimes : t1 < t2 => t2 - t1 >= obj[s].save_interval
  /\ FiveCycles =>
       /\ Len(emits) = 5
       /\ Len(db) = 3
       /\ BatchTimes = {StartTime, StartTime + 2, StartTime + 4}

\* Five cycles without any failure: every cycle read every interface.
C10_Witness ==
  /\ FiveCycles
  /\ thr[1].interfaces = <<"ether1", "ether2">>
  /\ \A k \in 1..Len(emits) : emits[k].complete

\* C11: a disconnect_mikrotik event served while no session is running
\* (never started, already stopped, or the last connect failed) changes no
\* state, and the handler answers the caller with a success status: every
\* disconnect_mikrotik handler returns with 'success' emitted.
C11_IdleStopReturnsSuccess ==
  [][\A h \in Handlers :
       /\ (hpc[h] = "with" /\ hreq[h].event = "disconnect_mikrotik"
             /\ hpc'[h] = "exit") =>
            << monitor_thread, LIVE_STATS, obj, thr, emits, broadcast, db >>'
              = << monitor_thread, LIVE_STATS, obj, thr, emits, broadcast, db >>
       /\ (hpc[h] = "exit" /\ hreq[h].event = "disconnect_mikrotik"
             /\ hpc'[h] = "idle") =>
            /\ << monitor_thread, LIVE_STATS, obj, thr, emits, broadcast, db >>'
                 = << monitor_thread, LIVE_STATS, obj, thr, emits, broadcast, db >>
            /\ hres'[h] = "success: Monitoring stopped"
  ]_vars

\* The sessions whose connect() failed: the pool object was made, get_api()
\* raised.
Failed == {s \in Sessions : obj[s].connection = "pool"}

\* C12: when the connect of a connect_mikrotik event fails, the thread of that
\* session is never started (it runs no cycle, broadcasts nothing and saves
\* nothing), and the handler emits the error status before it returns.
C12_FailedConnectStartsNoLoop ==
  /\ [](\A s \in Failed :
          /\ ~is_alive(s)
          /\ thr[s].cycle = 0
          /\ EmitsOf(s) = <<>>)
  /\ [][/\ \A h \in Handlers :
           /\ (hpc[h] = "create" /\ hpc'[h] # "create"
                 /\ obj'[monitor_thread'].connection = "pool") =>
                hpc'[h] = "failed"
           /\ (hpc[h] = "failed" /\ hpc'[h] # "failed") =>
                /\ hpc'[h] = "idle"
                /\ hres'[h] = "error: Failed to connect to MikroTik"
        /\ db' # db =>
             \E s \in Sessions \ Failed : is_alive(s) /\ thr[s].pc = "persist"
     ]_vars

\* A handler has returned with the error status and monitor_thread names the
\* session whose connect failed.
C12_Witness ==
  \E h \in Handlers :
    /\ hpc[h] = "idle"
    /\ hres[h] = "error: Failed to connect to MikroTik"
    /\ monitor_thread \in Failed

\* How often row r occurs in a sequence of rows.
Count(rows, r) == Cardinality({k \in DOMAIN rows : rows[k] = r})

\* C13: a report request answers with status success and exactly the rows of
\* performance_history whose timestamp lies in [startDate, endDate], each as
\* often as it was appended and none from outside, in ascending timestamp
\* order; a range that holds no row answers success with no rows.
C13_QueryReturnsRange ==
  [][report' # report =>
       LET data == report'.data
           inside(row) == /\ report'.startDate <= row.timestamp
                          /\ row.timestamp <= report'.endDate
           table == performance_history
       IN  /\ report'.status = "success"
           /\ \A k \in DOMAIN table :
                Count(data, table[k]) =
                  IF inside(table[k]) THEN Count(table, table[k]) ELSE 0
           /\ \A k \in DOMAIN data :
                /\ inside(data[k])
                /\ \E j \in DOMAIN table : table[j] = data[k]
           /\ \A j, k \in DOMAIN data :
                j < k => data[j].timestamp <= data[k].timestamp
           /\ (\A k \in DOMAIN table : ~inside(table[k])) => data = <<>>
  ]_vars

\* A report over the whole run: the three batches of this session and, second
\* by its timestamp though first in the table, the row of the earlier run.
C13_Witness ==
  /\ report.status = "success"
  /\ Len(report.data) = 4
  /\ performance_history[1].timestamp = StartTime + 1
  /\ report.data[1].timestamp = StartTime
  /\ report.data[2].timestamp = StartTime + 1

\* C14: a running session is stopped in the order signal, wait for the loop
\* to terminate, release the connection: a connection is released only once
\* its loop has terminated, and no step of a cycle (fetch, broadcast, persist)
\* runs after the connection was released.
C14_ReleaseAfterLoopEnds ==
  /\ [](\A s \in Sessions : obj[s].connection = "closed" => ~is_alive(s))
  /\ [][\A s \in Sessions :
          (is_alive(s) /\ obj[s].connection = "closed" /\ thr'[s] # thr[s]) =>
            thr[s].pc \in {"while", "sleep"}
     ]_vars

\* C15: when stop was requested while a cycle is in progress, the loop does
\* not go on to time.sleep once the cycle's steps are done: the step that
\* ends the cycle leads to the loop's termination.
C15_NoSleepAfterStopInCycle ==
  [][\A s \in Sessions :
       (is_alive(s) /\ ~obj[s].running /\ thr[s].pc \in {"emit", "persist"}
          /\ thr'[s] # thr[s]) =>
         thr'[s].pc # "sleep"
  ]_vars

\* C16: live_stats events are emitted in cycle order across the whole run:
\* the events of a session come in increasing cycle order, every event of a
\* replaced or stopped session comes before every event of a later session,
\* and a cycle's save happens only after that cycle's event was emitted.
C16_BroadcastsInCycleOrder ==
  /\ [](\A j, k \in 1..Len(emits) :
          j < k =>
            /\ emits[j].session <= emits[k].session
            /\ emits[j].session = emits[k].session =>
                 emits[j].cycle < emits[k].cycle)
  /\ [][/\ emits' # emits =>
             \E s \in Sessions :
               /\ is_alive(s)
               /\ Len(emits') = Len(emits) + 1
               /\ SubSeq(emits', 1, Len(emits)) = emits
               /\ emits'[Len(emits')].session = s
               /\ emits'[Len(emits')].cycle = thr[s].cycle
        /\ db' # db =>
             \E s \in Sessions :
               /\ is_alive(s)
               /\ EmitsOf(s) # <<>>
               /\ EmitsOf(s)[Len(EmitsOf(s))].cycle = thr[s].cycle
               /\ emits[Len(emits)].session = s
     ]_vars

\* Session 1 broadcast two cycles and was replaced; session 2 has broadcast
\* and saved its first cycle.
C16_Witness ==
  /\ Len(emits) = 3
  /\ emits[1].session = 1 /\ emits[2].session = 1 /\ emits[3].session = 2
  /\ Len(db) = 2
  /\ thr[1].state = "dead"

\* C17: every row of performance_history carries the raw numbers of its
\* cycle: the rates stored are in bits per second (the number save_to_db
\* parses is that of a text in bps) and the totals stored are the byte
\* counters read, whatever their magnitude.
C17_RowsCarryRawValues ==
  [][\A s \in Sessions :
       (is_alive(s) /\ thr[s].pc = "persist" /\ db' # db) =>
         LET rows == db'[Len(db')].rows
         IN  \A k \in DOMAIN rows :
               LET data == thr[s].stats[rows[k].interface]
               IN  /\ rows[k].rx_speed = ParseNumber(data.rx_speed)
                   /\ rows[k].tx_speed = ParseNumber(data.tx_speed)
                   /\ data.rx_speed.unit = "bps"
                   /\ data.tx_speed.unit = "bps"
                   /\ rows[k].interface \in ReadNow(s) =>
                        LET p == obj[s].previous_stats[rows[k].interface]
                        IN  /\ rows[k].rx_total = 100 * p.rx_bytes
                            /\ rows[k].tx_total = 100 * p.tx_bytes
  ]_vars

\* C18: in a running session, a pass of the for loop that read an interface's
\* counters leaves previous_stats[iface] equal to that reading (rx bytes, tx
\* bytes, the cycle's timestamp), whether or not a rate was computed (first
\* sample, time_diff <= 0, counter lower than before); every other entry, and
\* the entry of an interface whose read failed, is unchanged and no entry
\* appears otherwise; previous_stats changes only in the loop's own for
\* pass and last_db_save only in the loop's own save, never in a handler step.
C18_PreviousSampleTable ==
  [][\A s \in Sessions :
       is_alive(s) =>
         LET read == ForStep(s) /\ thr'[s].result.kind = "row"
             after == obj'[s].previous_stats
         IN  /\ read =>
                  /\ Iface(s) \in DOMAIN after
                  /\ after[Iface(s)] =
                       [rx_bytes |-> thr'[s].result.rx,
                        tx_bytes |-> thr'[s].result.tx,
                        timestamp |-> thr[s].current_time]
             /\ \A i \in DOMAIN Previous(s) :
                  ~(read /\ Iface(s) = i) =>
                    i \in DOMAIN after /\ after[i] = Previous(s)[i]
             /\ \A i \in DOMAIN after \ DOMAIN Previous(s) :
                  read /\ Iface(s) = i
             /\ after # Previous(s) => ForStep(s)
             /\ obj'[s].last_db_save # obj[s].last_db_save =>
                  /\ thr[s].pc = "persist" /\ thr'[s].pc = "sleep"
                  /\ obj'[s].last_db_save = now
  ]_vars

\* A second-cycle reading taken after the clock was set back behind the first
\* sample, of a counter lower than that sample's: no rate was computed and
\* the reading became the previous sample.
C18_Witness ==
  /\ is_alive(1)
  /\ thr[1].cycle = 2
  /\ "ether1" \in DOMAIN broadcast
  /\ broadcast["ether1"].rx_total = format_bytes(3000)
  /\ thr[1].result = Answer("row", 2000, 1500000)
  /\ thr[1].rx_speed = Zero /\ thr[1].tx_speed = Zero
  /\ obj[1].previous_stats["ether1"] =
       [rx_bytes |-> 2000, tx_bytes |-> 1500000, timestamp |-> StartTime - 1]
  /\ \E h \in Handlers : hpc[h] # "idle"

\* C19: a connect_mikrotik event that finds a session running stops it before
\* it connects: when the handler has joined, the old thread has ended with
\* its running flag false and its connection released; if the new connect
\* then fails, no thread is alive while monitor_thread names the failed
\* session, and none is when the handler returns its error status.
C19_FailedReplacingStartStopsOld ==
  /\ [](monitor_thread \in Failed => Alive = {})
  /\ [][\A h \in Handlers :
          /\ (hpc[h] = "join" /\ hpc'[h] = "create") =>
               /\ ~is_alive(monitor_thread)
               /\ ~obj[monitor_thread].running
               /\ obj[monitor_thread].connection = "closed"
          /\ (hpc[h] = "failed" /\ hpc'[h] = "idle") =>
               /\ hres'[h] = "error: Failed to connect to MikroTik"
               /\ \A s \in Sessions : ~is_alive(s)'
     ]_vars

\* Session 1 had broadcast when a second connect_mikrotik stopped it; that
\* event's connect failed and its handler has returned the error status.
C19_Witness ==
  /\ \E h \in Handlers :
       hpc[h] = "idle" /\ hres[h] = "error: Failed to connect to MikroTik"
  /\ monitor_thread = 2
  /\ 2 \in Failed
  /\ thr[1].state = "dead"
  /\ obj[1].connection = "closed"
  /\ EmitsOf(1) # <<>>

\* C20: when a disconnect_mikrotik handler emits 'Monitoring stopped', the
\* thread it stopped has ended; a thread that has ended stays ended, and only
\* a live thread's own step emits live_stats, saves rows or assigns
\* LIVE_STATS, so the stopped session does none of these again; no handler
\* step changes LIVE_STATS, which keeps the last snapshot until a live
\* session publishes its own.
C20_NothingAfterStopReturns ==
  [][/\ \A h \in Handlers :
          (hres'[h] = "success: Monitoring stopped" /\ hres'[h] # hres[h]) =>
            /\ thr[monitor_thread].state = "dead"
            /\ thr'[monitor_thread].state = "dead"
            /\ LIVE_STATS' = LIVE_STATS
     /\ \A s \in Sessions : thr[s].state = "dead" => thr'[s].state = "dead"
     /\ emits' # emits =>
          \E s \in Sessions :
            /\ is_alive(s) /\ thr[s].pc = "emit"
            /\ emits' = Append(emits, emits'[Len(emits')])
            /\ emits'[Len(emits')].session = s
     /\ db' # db =>
          \E s \in Sessions : is_alive(s) /\ thr[s].pc = "persist"
     /\ LIVE_STATS' # LIVE_STATS =>
          \E s \in Sessions :
            /\ is_alive(s) /\ thr[s].pc = "lock"
            /\ LIVE_STATS' = thr[s].stats
  ]_vars

\* Session 1 published, broadcast and saved a cycle and was stopped; the
\* handler has returned 'Monitoring stopped', no thread is alive and
\* LIVE_STATS still holds the snapshot of that cycle.
C20_Witness ==
  /\ \E h \in Handlers :
       hpc[h] = "idle" /\ hres[h] = "success: Monitoring stopped"
  /\ thr[1].state = "dead"
  /\ Alive = {}
  /\ EmitsOf(1) # <<>>
  /\ db # <<>>
  /\ LIVE_STATS # EmptyDict
  /\ LIVE_STATS = broadcast
====
